---- MODULE Spec2Model ----
(***************************************************************************)
(* The typographic plugin of django-prose-editor: a set of decorations     *)
(* over a ProseMirror document, built by a full scan at init and kept up   *)
(* to date on every transaction by remapping the previous set and          *)
(* rescanning the nodes changedDescendants reports.                        *)
(*                                                                         *)
(* Documents are trees of nodes.  A node is a record                       *)
(*   [id, type, attrs, marks, text, content]                               *)
(* where id stands for the identity of the JavaScript object (what === in  *)
(* changedDescendants compares): nodes of the current document carry       *)
(* their preorder number, nodes a transaction creates carry Fresh.         *)
(* Characters are named by their code point ("u00A0"); "a" is an ordinary  *)
(* letter.                                                                 *)
(***************************************************************************)
EXTENDS Integers, Sequences, FiniteSets, Bags, TLC

\* ------------------------------------------------------------------ bounds
MaxBlocks == 2      \* top-level children of the document
MaxInline == 3      \* inline children of one paragraph
MaxText == 2        \* characters of one text node
MaxSize == 7        \* doc.content.size

\* A look-ahead that ends at the new child's own index: Math.min(oldSize, i + 1).
LookAheadOne == 3 - 2

\* The look-ahead of changedDescendants: Math.min(oldSize, i + 3).
LookAhead == 3

Fresh == 0

Min(a, b) == IF a < b THEN a ELSE b

\* ------------------------------------------------------------ the document
Text(id, s) ==
  [id |-> id, type |-> "text", attrs |-> "", marks |-> "", text |-> s, content |-> <<>>]
HardBreak(id) ==
  [id |-> id, type |-> "hardBreak", attrs |-> "", marks |-> "", text |-> <<>>, content |-> <<>>]
Paragraph(id, a, kids) ==
  [id |-> id, type |-> "paragraph", attrs |-> a, marks |-> "", text |-> <<>>, content |-> kids]
Doc(kids) ==
  [id |-> Fresh, type |-> "doc", attrs |-> "", marks |-> "", text |-> <<>>, content |-> kids]

isText(n) == n.type = "text"
isLeaf(n) == n.type \in {"text", "hardBreak"}

RECURSIVE nodeSize(_), fragmentSize(_)
\* Node.nodeSize: the text length of a text node, 1 for another leaf,
\* content size + 2 for a node with content.
nodeSize(n) ==
  IF isText(n) THEN Len(n.text)
  ELSE IF isLeaf(n) THEN 1
  ELSE 2 + fragmentSize(n.content)
\* Fragment.size; node.content.size is 0 for a text node and for a leaf.
fragmentSize(kids) ==
  IF kids = <<>> THEN 0 ELSE nodeSize(Head(kids)) + fragmentSize(Tail(kids))

contentSize(n) == fragmentSize(n.content)

\* node.sameMarkup(other): same type, attributes and marks.
sameMarkup(a, b) == a.type = b.type /\ a.attrs = b.attrs /\ a.marks = b.marks

\* A comparison that never succeeds: old.child(scan) === cur.
sameNodeNever(a, b) == FALSE

\* old.child(scan) === child: the very same node object.
sameNode(a, b) == a.id = b.id /\ a.id # Fresh

RECURSIVE nodesBetween(_, _)
\* child.nodesBetween(0, child.content.size, f, start): the calls f(node, pos)
\* for every descendant, in document order; f returns nothing, so the walk
\* always descends.
nodesBetween(kids, pos) ==
  IF kids = <<>> THEN <<>>
  ELSE LET c == Head(kids)
       IN <<[node |-> c, offset |-> pos]>>
          \o (IF contentSize(c) > 0 THEN nodesBetween(c.content, pos + 1) ELSE <<>>)
          \o nodesBetween(Tail(kids), pos + nodeSize(c))

\* doc.descendants(f)
descendants(doc) == nodesBetween(doc.content, 0)

\* ------------------------------------------------------ changedDescendants
RECURSIVE changedDescendants(_, _, _), cdLoop(_, _, _, _, _)
\* One iteration of the outer loop for new child i (0-based) with lagging
\* cursor j, and the iterations after it; the result is the sequence of
\* calls f(node, offset) in the order the code makes them.
cdLoop(old, cur, i, j, offset) ==
  IF i >= Len(cur.content) THEN <<>>
  ELSE LET child == cur.content[i + 1]
           e == Min(Len(old.content), i + LookAhead)
           hits == {scan \in j..(e - 1) : sameNode(old.content[scan + 1], child)}
       IN IF hits # {}
          THEN LET scan == CHOOSE s \in hits : \A t \in hits : s <= t
               IN cdLoop(old, cur, i + 1, scan + 1, offset + nodeSize(child))
          ELSE <<[node |-> child, offset |-> offset]>>
               \o (IF j < Len(old.content) /\ sameMarkup(old.content[j + 1], child)
                   THEN changedDescendants(old.content[j + 1], child, offset + 1)
                   ELSE nodesBetween(child.content, offset + 1))
               \o cdLoop(old, cur, i + 1, j, offset + nodeSize(child))

changedDescendants(old, cur, offset) == cdLoop(old, cur, 0, 0, offset)

\* -------------------------------------------------------------- the scanner
\* The configured characters and their classes.
classes ==
  [c \in {"u00A0", "u00AD", "u200B", "u200C", "u200D", "u2060", "u2028",
          "u2029", "u2003", "u2009", "u202F", "u2002", "u2004", "u2005",
          "u2006", "u2007", "u2008", "u205F", "u180E", "uFEFF"} |->
     CASE c = "u00A0" -> "prose-editor-nbsp"
       [] c = "u00AD" -> "prose-editor-shy"
       [] c = "u200B" -> "prose-editor-zwsp"
       [] c = "u200C" -> "prose-editor-zwnj"
       [] c = "u200D" -> "prose-editor-zwj"
       [] c = "u2060" -> "prose-editor-wj"
       [] c = "u2028" -> "prose-editor-ls"
       [] c = "u2029" -> "prose-editor-ps"
       [] c = "u2003" -> "prose-editor-emsp"
       [] c = "u2009" -> "prose-editor-thinsp"
       [] c = "u202F" -> "prose-editor-nnbsp"
       [] c = "u2002" -> "prose-editor-ensp"
       [] c = "u2004" -> "prose-editor-3persp"
       [] c = "u2005" -> "prose-editor-4persp"
       [] c = "u2006" -> "prose-editor-6persp"
       [] c = "u2007" -> "prose-editor-figsp"
       [] c = "u2008" -> "prose-editor-psp"
       [] c = "u205F" -> "prose-editor-mmsp"
       [] c = "u180E" -> "prose-editor-mvs"
       [] c = "uFEFF" -> "prose-editor-bom"]

\* Decoration.inline(from, to, {class}) and Decoration.node(from, to, {class})
inline(from, to, class) == [kind |-> "inline", from |-> from, to |-> to, class |-> class]
node(from, to, class) == [kind |-> "node", from |-> from, to |-> to, class |-> class]

\* node.text.match(pattern) without the g flag: the first match only.
matchFirst(text, index) ==
  LET hits == {i \in index..(Len(text) - 1) : text[i + 1] \in DOMAIN classes}
  IN IF hits = {} THEN <<>> ELSE <<CHOOSE i \in hits : \A h \in hits : i <= h>>

RECURSIVE matchAll(_, _)
\* node.text.matchAll(pattern): the 0-based indices of the characters in the
\* character class built from the keys of classes, left to right.
matchAll(text, index) ==
  IF index >= Len(text) THEN <<>>
  ELSE (IF text[index + 1] \in DOMAIN classes THEN <<index>> ELSE <<>>)
       \o matchAll(text, index + 1)

\* The scanner with the node decoration on every leaf: if (node.isLeaf).
typographicDecorationsForLeaf(n, position) ==
  LET matches == IF n.text # <<>> THEN matchAll(n.text, 0) ELSE <<>>
      inlines == [m \in 1..Len(matches) |->
                    inline(position + matches[m], position + matches[m] + 1,
                           classes[n.text[matches[m] + 1]])]
  IN inlines \o (IF isLeaf(n)
                 THEN <<node(position, position + nodeSize(n), "prose-editor-br")>>
                 ELSE <<>>)

typographicDecorationsForNode(n, position) ==
  LET matches == IF n.text # <<>> THEN matchAll(n.text, 0) ELSE <<>>
      inlines == [m \in 1..Len(matches) |->
                    inline(position + matches[m], position + matches[m] + 1,
                           classes[n.text[matches[m] + 1]])]
  IN inlines \o (IF n.type = "hardBreak"
                 THEN <<node(position, position + nodeSize(n), "prose-editor-br")>>
                 ELSE <<>>)

\* ------------------------------------------------------------- the mapping
\* A step map is a sequence of ranges <<start, oldSize, newSize>>; tr.mapping
\* is the sequence of the step maps of the transaction's steps.
RECURSIVE stepMapResult(_, _, _, _, _)
\* StepMap.mapResult(pos, assoc): the mapped position and whether the side
\* of the position assoc points to was deleted.
stepMapResult(ranges, i, diff, pos, assoc) ==
  IF i > Len(ranges) THEN [pos |-> pos + diff, deleted |-> FALSE]
  ELSE LET start == ranges[i][1]
           oldSize == ranges[i][2]
           newSize == ranges[i][3]
           end == start + oldSize
       IN IF start > pos THEN [pos |-> pos + diff, deleted |-> FALSE]
          ELSE IF pos <= end
          THEN LET side == IF oldSize = 0 THEN assoc
                           ELSE IF pos = start THEN -1
                           ELSE IF pos = end THEN 1
                           ELSE assoc
               IN [pos |-> start + diff + (IF side < 0 THEN 0 ELSE newSize),
                   deleted |-> IF assoc < 0 THEN pos # start ELSE pos # end]
          ELSE stepMapResult(ranges, i + 1, diff + newSize - oldSize, pos, assoc)

RECURSIVE mapResult(_, _, _)
\* Mapping.mapResult(pos, assoc): through every step map in turn.
mapResult(mapping, pos, assoc) ==
  IF mapping = <<>> THEN [pos |-> pos, deleted |-> FALSE]
  ELSE LET r == stepMapResult(Head(mapping), 1, 0, pos, assoc)
           rest == mapResult(Tail(mapping), r.pos, assoc)
       IN [pos |-> rest.pos, deleted |-> r.deleted \/ rest.deleted]

\* ------------------------------------------------------- the decoration set
\* A DecorationSet is modelled by the bag of its decorations (a decoration
\* can be in a set more than once); the tree the library keeps them in
\* follows the nodes of the document the set belongs to, which the
\* operations below take as an argument where the tree matters.
NoDecoration == [kind |-> "none", from |-> 0, to |-> 0, class |-> ""]

\* The nodes with content (no leaves) of a document, each with its position.
containers(doc) ==
  LET all == descendants(doc)
  IN {[from |-> all[k].offset, to |-> all[k].offset + nodeSize(all[k].node)] :
        k \in {x \in 1..Len(all) : ~isLeaf(all[x].node)}}

\* InlineType.valid / NodeType.valid: an inline decoration is not empty; a
\* node decoration spans exactly one node that is not a text node.
valid(doc, d) ==
  CASE d.kind = "inline" -> d.from < d.to
    [] d.kind = "node" ->
         LET all == descendants(doc)
         IN \E k \in 1..Len(all) :
              /\ all[k].offset = d.from
              /\ all[k].offset + nodeSize(all[k].node) = d.to
              /\ ~isText(all[k].node)
    [] OTHER -> FALSE

\* InlineType.map / NodeType.map
mapDecoration(mapping, d) ==
  IF d.kind = "inline"
  THEN LET from == mapResult(mapping, d.from, 1).pos
           to == mapResult(mapping, d.to, -1).pos
       IN IF from >= to THEN NoDecoration ELSE inline(from, to, d.class)
  ELSE LET from == mapResult(mapping, d.from, 1)
           to == mapResult(mapping, d.to, -1)
       IN IF from.deleted \/ to.deleted \/ to.pos <= from.pos
          THEN NoDecoration
          ELSE node(from.pos, to.pos, d.class)

\* Only the valid decorations of a bag.
onlyValid(doc, bag) ==
  LET keep == {d \in DOMAIN bag : valid(doc, d)}
  IN [d \in keep |-> bag[d]]

RECURSIVE bagOfSeq(_)
bagOfSeq(decorations) ==
  IF decorations = <<>> THEN EmptyBag
  ELSE SetToBag({Head(decorations)}) (+) bagOfSeq(Tail(decorations))

\* DecorationSet.create(doc, decorations)
create(doc, decorations) == onlyValid(doc, bagOfSeq(decorations))

\* A set taken over as it is: let newSet = set.
mapSetNot(set, mapping, doc) == set

\* set.map(mapping, doc): every decoration mapped; those the change deleted
\* or that no longer fit the document are dropped.
mapSet(set, mapping, doc) ==
  IF set = EmptyBag \/ mapping = <<>> THEN set
  ELSE onlyValid(doc, BagOfAll(LAMBDA d : mapDecoration(mapping, d), set))

\* set.find(start, end): the decorations that touch [start, end], found by
\* descending only into the children whose range overlaps it.
find(set, doc, start, end) ==
  LET cs == containers(doc)
  IN {d \in DOMAIN set :
        /\ d.from <= end
        /\ d.to >= start
        /\ \A c \in cs : (c.from < d.from /\ d.to < c.to) => (c.from < end /\ c.to > start)}

\* set.remove(decorations): every decoration equal to one of them goes.
remove(set, decorations) == [d \in (DOMAIN set) \ decorations |-> set[d]]

\* set.add(doc, decorations)
add(set, doc, decorations) == set (+) onlyValid(doc, bagOfSeq(decorations))

\* typographicDecorations(doc): the full scan.
RECURSIVE scanAll(_)
scanAll(calls) ==
  IF calls = <<>> THEN <<>>
  ELSE typographicDecorationsForNode(Head(calls).node, Head(calls).offset)
       \o scanAll(Tail(calls))

\* A full scan that looks at the top-level children only.
typographicDecorationsTopLevel(doc) ==
  create(doc, scanAll([k \in 1..Len(doc.content) |->
                         [node |-> doc.content[k],
                          offset |-> fragmentSize(SubSeq(doc.content, 1, k - 1))]]))

typographicDecorations(doc) == create(doc, scanAll(descendants(doc)))

\* ------------------------------------------------------------------- state
VARIABLES
  doc,       \* state.doc of the current editor state
  set,       \* the plugin's state in the current editor state
  pc,        \* "idle", or "apply" while state.apply runs
  tr,        \* the transaction being applied
  newSet,    \* the local variable newSet of apply
  calls,     \* the calls f(node, offset) changedDescendants has still to make
  reported,  \* the calls it has made
  scan,      \* one call of typographicDecorationsForNode on its own
  cd,        \* one call of changedDescendants on its own, statement by statement
  nc,        \* the editor the NodeClass extension works on
  cmd,       \* the NodeClass command that runs or ran last on that editor
  ol         \* the editor the OrderedList extension works on

vars == <<doc, set, pc, tr, newSet, calls, reported, scan, cd, nc, cmd, ol>>

\* The characters the modelled edits type.
Chars == {"a", "u00A0"}

NoTransaction == [kind |-> "none", doc |-> Doc(<<>>), mapping |-> <<>>, at |-> 0, to |-> 0]

\* props.decorations(state): what the view renders.
decorations == set

\* ------------------------------------------------------- building documents
InsertAt(seq, i, xs) == SubSeq(seq, 1, i - 1) \o xs \o SubSeq(seq, i, Len(seq))
RemoveAt(seq, i) == SubSeq(seq, 1, i - 1) \o SubSeq(seq, i + 1, Len(seq))

\* The position of top-level child b, and of child k of that child.
blockStart(d, b) == fragmentSize(SubSeq(d.content, 1, b - 1))
inlineStart(d, b, k) ==
  blockStart(d, b) + 1 + fragmentSize(SubSeq(d.content[b].content, 1, k - 1))

RECURSIVE join(_)
\* Adjacent text nodes with the same marks are one (new) text node.
join(kids) ==
  IF Len(kids) < 2 THEN kids
  ELSE IF isText(kids[1]) /\ isText(kids[2]) /\ kids[1].marks = kids[2].marks
  THEN join(<<Text(Fresh, kids[1].text \o kids[2].text)>> \o SubSeq(kids, 3, Len(kids)))
  ELSE <<kids[1]>> \o join(Tail(kids))

SeqsUpTo(S, n) == UNION {[1..m -> S] : m \in 0..n}

\* The leaves a transaction can insert.
NewLeaves ==
  {HardBreak(Fresh)} \cup {Text(Fresh, s) : s \in SeqsUpTo(Chars, MaxText) \ {<<>>}}

RECURSIVE contentsUpTo(_)
\* The inline content a new paragraph can have, of at most n leaves: no
\* empty text node, no two adjacent text nodes.
contentsUpTo(n) ==
  IF n = 0 THEN {<<>>}
  ELSE LET shorter == contentsUpTo(n - 1)
           longest == {c \in shorter : Len(c) = n - 1}
       IN shorter \cup
          {Append(e[1], e[2]) :
             e \in {x \in longest \X NewLeaves :
                      /\ fragmentSize(x[1]) + nodeSize(x[2]) + 2 <= MaxSize
                      /\ (x[1] # <<>> /\ isText(x[2])) => ~isText(x[1][Len(x[1])])}}

NewContents == contentsUpTo(MaxInline)
NewParagraphs == {Paragraph(Fresh, "", c) : c \in NewContents}

RECURSIVE paragraphsUpTo(_, _)
\* The sequences of at most n new paragraphs that take at most room positions.
paragraphsUpTo(n, room) ==
  IF n = 0 THEN {<<>>}
  ELSE LET shorter == paragraphsUpTo(n - 1, room)
           longest == {ps \in shorter : Len(ps) = n - 1}
       IN shorter \cup
          {Append(e[1], e[2]) :
             e \in {x \in longest \X NewParagraphs :
                      fragmentSize(x[1]) + nodeSize(x[2]) <= room}}

\* The content a transaction can insert between top-level children.
NewBlocks == paragraphsUpTo(MaxBlocks, MaxSize) \ {<<>>}

RECURSIVE renumberFragment(_, _)
\* The nodes of the document the next transaction starts from, numbered in
\* document order: [kids, next].
renumberFragment(kids, next) ==
  IF kids = <<>> THEN [kids |-> <<>>, next |-> next]
  ELSE LET inner == renumberFragment(Head(kids).content, next + 1)
           rest == renumberFragment(Tail(kids), inner.next)
       IN [kids |-> <<[Head(kids) EXCEPT !.id = next, !.content = inner.kids]>> \o rest.kids,
           next |-> rest.next]

renumber(d) == [d EXCEPT !.content = renumberFragment(d.content, 1).kids]

\* ------------------------------------------------------------------- apply
\* apply(tr, set, oldState) up to the first call of the callback: the set
\* is mapped and changedDescendants starts on (oldState.doc, tr.doc).
\* at and to say where the transaction changed the document: the indices
\* of the paragraph and of its child for a change inside a paragraph, the
\* indices among the top-level children for a change of whole paragraphs.
Apply(kind, newDoc, mapping, at, to) ==
  /\ pc = "idle"
  /\ contentSize(newDoc) <= MaxSize
  /\ pc' = "apply"
  /\ tr' = [kind |-> kind, doc |-> newDoc, mapping |-> mapping, at |-> at, to |-> to]
  /\ newSet' = mapSet(set, mapping, newDoc)
  /\ calls' = changedDescendants(doc, newDoc, 0)
  /\ reported' = <<>>
  /\ UNCHANGED <<doc, set, scan, cd, nc, cmd, ol>>

\* The callback that clears only when the scan found something.
callbackWhenScanned(s, d, n, offset) ==
  IF typographicDecorationsForNode(n, offset) = <<>> THEN s
  ELSE add(remove(s, find(s, d, offset, offset + contentSize(n))), d,
           typographicDecorationsForNode(n, offset))

\* The callback without its first statement: add only.
callbackAddOnly(s, d, n, offset) ==
  add(s, d, typographicDecorationsForNode(n, offset))

\* The callback of apply for one reported node: remove, then add.
callback(s, d, n, offset) ==
  add(remove(s, find(s, d, offset, offset + contentSize(n))), d,
      typographicDecorationsForNode(n, offset))

\* The callback working on the published set itself.
CallbackInPlace ==
  /\ pc = "apply"
  /\ calls # <<>>
  /\ newSet' = callback(newSet, tr.doc, Head(calls).node, Head(calls).offset)
  /\ set' = newSet'
  /\ calls' = Tail(calls)
  /\ reported' = Append(reported, Head(calls))
  /\ UNCHANGED <<doc, pc, tr, scan, cd, nc, cmd, ol>>

Callback ==
  /\ pc = "apply"
  /\ calls # <<>>
  /\ newSet' = callback(newSet, tr.doc, Head(calls).node, Head(calls).offset)
  /\ calls' = Tail(calls)
  /\ reported' = Append(reported, Head(calls))
  /\ UNCHANGED <<doc, set, pc, tr, scan, cd, nc, cmd, ol>>

\* apply returns newSet: the new editor state holds tr.doc and newSet.
Return ==
  /\ pc = "apply"
  /\ calls = <<>>
  /\ pc' = "idle"
  /\ doc' = renumber(tr.doc)
  /\ set' = newSet
  /\ tr' = NoTransaction
  /\ reported' = <<>>
  /\ UNCHANGED <<newSet, calls, scan, cd, nc, cmd, ol>>

\* ------------------------------------------------------------ transactions
\* Typing character ch at index i of text node k of paragraph b.
InsertText ==
  /\ pc = "idle"
  /\ \E b \in 1..Len(doc.content) :
       \E k \in 1..Len(doc.content[b].content) :
         LET p == doc.content[b]
             t == p.content[k]
         IN /\ isText(t)
            /\ Len(t.text) < MaxText
            /\ \E i \in 0..Len(t.text), ch \in Chars :
                 LET t2 == Text(Fresh, InsertAt(t.text, i + 1, <<ch>>))
                     p2 == Paragraph(Fresh, p.attrs, [p.content EXCEPT ![k] = t2])
                 IN Apply("insertText", Doc([doc.content EXCEPT ![b] = p2]),
                          << << <<inlineStart(doc, b, k) + i, 0, 1>> >> >>, b, k)

\* Inserting a hard break or a one-character text node before child k.
InsertLeaf ==
  /\ pc = "idle"
  /\ \E b \in 1..Len(doc.content) :
       LET p == doc.content[b]
       IN /\ Len(p.content) < MaxInline
          /\ \E k \in 1..(Len(p.content) + 1) :
               \E leaf \in {HardBreak(Fresh)} \cup {Text(Fresh, <<ch>>) : ch \in Chars} :
                 /\ isText(leaf) => /\ k > 1 => ~isText(p.content[k - 1])
                                    /\ k <= Len(p.content) => ~isText(p.content[k])
                 /\ LET p2 == Paragraph(Fresh, p.attrs, InsertAt(p.content, k, <<leaf>>))
                    IN Apply("insertLeaf", Doc([doc.content EXCEPT ![b] = p2]),
                             << << <<inlineStart(doc, b, k), 0, 1>> >> >>, b, k)

\* Deleting one position of child k of paragraph b: character i of a text
\* node, or a hard break.
DeleteOne ==
  /\ pc = "idle"
  /\ \E b \in 1..Len(doc.content) :
       \E k \in 1..Len(doc.content[b].content) :
         LET p == doc.content[b]
             t == p.content[k]
         IN \E i \in 1..nodeSize(t) :
              LET kids == IF isText(t) /\ Len(t.text) > 1
                          THEN [p.content EXCEPT ![k] = Text(Fresh, RemoveAt(t.text, i))]
                          ELSE RemoveAt(p.content, k)
                  p2 == Paragraph(Fresh, p.attrs, join(kids))
              IN /\ \A x \in 1..Len(p2.content) : nodeSize(p2.content[x]) <= MaxText
                 /\ Apply("delete", Doc([doc.content EXCEPT ![b] = p2]),
                          << << <<inlineStart(doc, b, k) + i - 1, 1, 0>> >> >>, b, k)

\* Replacing character i of text node k of paragraph b by another one.
ReplaceChar ==
  /\ pc = "idle"
  /\ \E b \in 1..Len(doc.content) :
       \E k \in 1..Len(doc.content[b].content) :
         LET p == doc.content[b]
             t == p.content[k]
         IN /\ isText(t)
            /\ \E i \in 1..Len(t.text), ch \in Chars :
                 /\ ch # t.text[i]
                 /\ LET t2 == Text(Fresh, [t.text EXCEPT ![i] = ch])
                        p2 == Paragraph(Fresh, p.attrs, [p.content EXCEPT ![k] = t2])
                    IN Apply("replace", Doc([doc.content EXCEPT ![b] = p2]),
                             << << <<inlineStart(doc, b, k) + i - 1, 1, 1>> >> >>, b, k)

\* Inserting new paragraphs before top-level child k.
InsertBlocks ==
  /\ pc = "idle"
  /\ \E k \in 1..(Len(doc.content) + 1) :
       \E ps \in {x \in NewBlocks : Len(doc.content) + Len(x) <= MaxBlocks} :
         Apply("insertBlocks", Doc(InsertAt(doc.content, k, ps)),
               << << <<blockStart(doc, k), 0, fragmentSize(ps)>> >> >>, k, k + Len(ps) - 1)

\* Deleting top-level child k.
DeleteBlock ==
  /\ pc = "idle"
  /\ \E k \in 1..Len(doc.content) :
       Apply("deleteBlock", Doc(RemoveAt(doc.content, k)),
             << << <<blockStart(doc, k), nodeSize(doc.content[k]), 0>> >> >>, k, k)

\* Moving top-level child k to index k2: a step that deletes it and a step
\* that inserts the same node again.
MoveBlock ==
  /\ pc = "idle"
  /\ \E k \in 1..Len(doc.content) :
       \E k2 \in (1..Len(doc.content)) \ {k} :
         LET moved == doc.content[k]
             without == Doc(RemoveAt(doc.content, k))
         IN Apply("moveBlock", Doc(InsertAt(without.content, k2, <<moved>>)),
                  << << <<blockStart(doc, k), nodeSize(moved), 0>> >>,
                     << <<blockStart(without, k2), 0, nodeSize(moved)>> >> >>, k, k2)

\* A transaction without steps (a selection change): the same document.
NoChange ==
  /\ pc = "idle"
  /\ Apply("noChange", doc, <<>>, 0, 0)

\* init(_, {doc}): the plugin starts with the full scan of the document.
InitEditor ==
  /\ doc = Doc(<<>>)
  /\ set = typographicDecorations(doc)
  /\ pc = "idle"
  /\ tr = NoTransaction
  /\ newSet = set
  /\ calls = <<>>
  /\ reported = <<>>

NoScan == [node |-> Doc(<<>>), position |-> 0, decorations |-> <<>>, pc |-> "none"]

\* changedDescendants is not running on its own.
NoRun == [pc |-> "none", old |-> Doc(<<>>), cur |-> Doc(<<>>), stack |-> <<>>, out |-> <<>>]

\* No editor with the NodeClass extension.
NoEditor ==
  [last |-> "none", path |-> <<>>, marks |-> {}, empty |-> TRUE, shown |-> {}, error |-> ""]

\* No NodeClass command has run.  name, type and className are the command
\* and its arguments; result is what it returned; stack holds, for every
\* activation of unsetNodeClass without a type, the types it has still to
\* clear; cleared lists the per-type clears made; path, marks and empty
\* are the document and selection of the transaction the command works on.
NoCommand ==
  [name |-> "none", type |-> "", className |-> "", result |-> "none",
   stack |-> <<>>, cleared |-> <<>>, path |-> <<>>, marks |-> {}, empty |-> TRUE]

\* No editor with the OrderedList extension.
NoList == [pc |-> "none"]

Init ==
  InitEditor /\ scan = NoScan /\ cd = NoRun /\ nc = NoEditor /\ cmd = NoCommand /\ ol = NoList

Next ==
  \/ InsertText
  \/ InsertLeaf
  \/ DeleteOne
  \/ ReplaceChar
  \/ InsertBlocks
  \/ DeleteBlock
  \/ MoveBlock
  \/ NoChange
  \/ Callback
  \/ Return

Spec == Init /\ [][Next]_vars

\* ------------------------------------------------ init on a loaded document
\* The documents an editor can be created with.
AttachedDocs == {renumber(Doc(ps)) : ps \in NewBlocks \cup {<<>>}}

\* The editor before the plugin's init has run: the document is there, the
\* plugin has no state yet.
InitAttach ==
  /\ doc \in AttachedDocs
  /\ set = EmptyBag
  /\ pc = "init"
  /\ tr = NoTransaction
  /\ newSet = EmptyBag
  /\ calls = <<>>
  /\ reported = <<>>
  /\ scan = NoScan
  /\ cd = NoRun
  /\ nc = NoEditor
  /\ cmd = NoCommand
  /\ ol = NoList

\* init(_, {doc}): return typographicDecorations(doc). tr keeps the
\* configuration init was called with until the first transaction.
PluginInit ==
  /\ pc = "init"
  /\ set' = typographicDecorations(doc)
  /\ newSet' = set'
  /\ pc' = "idle"
  /\ tr' = [kind |-> "init", doc |-> doc, mapping |-> <<>>, at |-> 0, to |-> 0]
  /\ UNCHANGED <<doc, calls, reported, scan, cd, nc, cmd, ol>>

NextInit == PluginInit

SpecInit == InitAttach /\ [][NextInit]_vars

\* ------------------------------------------------- the scanner on its own
\* typographicDecorationsForNode is a function of a node and a position: it
\* is called once on every input of a bounded set.
MaxScanText == 3    \* characters of a scanned text node
MaxPosition == 2    \* the position the scanned node is at

ScanChars == {"a", "u00A0", "u00AD"}

ScanNodes ==
  {Text(Fresh, s) : s \in SeqsUpTo(ScanChars, MaxScanText) \ {<<>>}}
    \cup {HardBreak(Fresh), Paragraph(Fresh, "", <<>>),
          Paragraph(Fresh, "", <<Text(Fresh, <<"u00A0">>)>>),
          Paragraph(Fresh, "", <<HardBreak(Fresh)>>),
          Paragraph(Fresh, "", <<HardBreak(Fresh), Text(Fresh, <<"u00AD">>)>>)}

ScanInit ==
  /\ InitEditor
  /\ cd = NoRun
  /\ nc = NoEditor
  /\ cmd = NoCommand
  /\ ol = NoList
  /\ scan \in {[node |-> n, position |-> p, decorations |-> <<>>, pc |-> "call"] :
                 n \in ScanNodes, p \in 0..MaxPosition}

Scan ==
  /\ scan.pc = "call"
  /\ scan' = [scan EXCEPT
                !.decorations = typographicDecorationsForNode(scan.node, scan.position),
                !.pc = "return"]
  /\ UNCHANGED <<doc, set, pc, tr, newSet, calls, reported, cd, nc, cmd, ol>>

ScanNext == Scan

SpecScan == ScanInit /\ [][ScanNext]_vars

\* ------------------------------------- changedDescendants, step by step
\* One call changedDescendants(old, cur, 0, f) on its own, a statement at a
\* time.  cd.stack holds the activations, the innermost last; cd.out is the
\* sequence of the calls f(node, offset) made so far.  An activation is
\*   [old, cur, i, j, scan, offset]   the parameters and the loop variables,
\* and, kept for stating properties only,
\*   start    the value of the parameter offset at the call,
\*   looked   how many old children were compared with the current new child,
\*   base     Len(cd.out) at the call.
\* cd.pc says where the innermost activation stands: "loop" at the test of
\* the outer loop, "scan" at the test of the inner loop, "descend" after the
\* call of f, "done" when the outermost call has returned.
MaxOld == 4         \* children of the old document
MaxCur == 2         \* children of the new document

activation(old, cur, offset, base) ==
  [old |-> old, cur |-> cur, i |-> 0, j |-> 0, scan |-> 0, offset |-> offset,
   start |-> offset, looked |-> 0, base |-> base]

\* The documents a call starts from: paragraphs of a text and a hard break.
OldDocs ==
  {renumber(Doc([k \in 1..n |->
                   Paragraph(Fresh, "", <<Text(Fresh, <<"a">>), HardBreak(Fresh)>>)])) :
     n \in 0..MaxOld}

\* What a transaction can leave as a child of the new document: a child of
\* the old one itself; a copy of it with the same markup whose first child
\* is new and whose second is the old one; a copy with other attributes and
\* the old content; a new paragraph.
CurChildren(old) ==
  {old.content[k] : k \in 1..Len(old.content)}
    \cup {Paragraph(Fresh, "", <<Text(Fresh, <<"a", "a">>), old.content[k].content[2]>>) :
            k \in 1..Len(old.content)}
    \cup {Paragraph(Fresh, "x", old.content[k].content) : k \in 1..Len(old.content)}
    \cup {Paragraph(Fresh, "", <<Text(Fresh, <<"a">>)>>)}

\* The new documents: any MaxCur of these children, or the old children
\* under a root with another attribute.
CurDocs(old) ==
  {Doc(kids) : kids \in SeqsUpTo(CurChildren(old), MaxCur)}
    \cup {[Doc(old.content) EXCEPT !.attrs = "x"]}

top == cd.stack[Len(cd.stack)]
child == top.cur.content[top.i + 1]
e == Min(Len(top.old.content), top.i + LookAhead)
setTop(f) == [cd.stack EXCEPT ![Len(cd.stack)] = f]

CdInit ==
  /\ InitEditor
  /\ scan = NoScan
  /\ nc = NoEditor
  /\ cmd = NoCommand
  /\ ol = NoList
  /\ cd \in UNION {{[pc |-> "loop", old |-> o, cur |-> c,
                     stack |-> <<activation(o, c, 0, 0)>>, out |-> <<>>] :
                      c \in CurDocs(o)} : o \in OldDocs}

\* The inner loop started at the first old child: scan = 0.
CdNextChildFromStart ==
  /\ cd.pc = "loop"
  /\ top.i < Len(top.cur.content)
  /\ cd' = [cd EXCEPT !.pc = "scan",
                      !.stack = setTop([top EXCEPT !.scan = 0, !.looked = 0])]
  /\ UNCHANGED <<doc, set, pc, tr, newSet, calls, reported, scan, nc, cmd, ol>>

\* The outer loop goes on: i < curSize, child = cur.child(i), scan = j.
CdNextChild ==
  /\ cd.pc = "loop"
  /\ top.i < Len(top.cur.content)
  /\ cd' = [cd EXCEPT !.pc = "scan",
                      !.stack = setTop([top EXCEPT !.scan = top.j, !.looked = 0])]
  /\ UNCHANGED <<doc, set, pc, tr, newSet, calls, reported, scan, nc, cmd, ol>>

\* A match that leaves the lagging cursor where it is: no j = scan + 1.
CdMatchKeepsCursor ==
  /\ cd.pc = "scan"
  /\ top.scan < e
  /\ sameNode(top.old.content[top.scan + 1], child)
  /\ cd' = [cd EXCEPT !.pc = "loop",
                      !.stack = setTop([top EXCEPT !.offset = top.offset + nodeSize(child),
                                                   !.i = top.i + 1,
                                                   !.looked = top.looked + 1])]
  /\ UNCHANGED <<doc, set, pc, tr, newSet, calls, reported, scan, nc, cmd, ol>>

\* old.child(scan) === child: j = scan + 1, offset += child.nodeSize,
\* continue outer.
CdMatch ==
  /\ cd.pc = "scan"
  /\ top.scan < e
  /\ sameNode(top.old.content[top.scan + 1], child)
  /\ cd' = [cd EXCEPT !.pc = "loop",
                      !.stack = setTop([top EXCEPT !.j = top.scan + 1,
                                                   !.offset = top.offset + nodeSize(child),
                                                   !.i = top.i + 1,
                                                   !.looked = top.looked + 1])]
  /\ UNCHANGED <<doc, set, pc, tr, newSet, calls, reported, scan, nc, cmd, ol>>

\* The inner loop without its scan++.
CdMissStuck ==
  /\ cd.pc = "scan"
  /\ top.scan < e
  /\ ~sameNode(top.old.content[top.scan + 1], child)
  /\ cd' = cd
  /\ UNCHANGED <<doc, set, pc, tr, newSet, calls, reported, scan, nc, cmd, ol>>

\* old.child(scan) is another node: scan++.
CdMiss ==
  /\ cd.pc = "scan"
  /\ top.scan < e
  /\ ~sameNode(top.old.content[top.scan + 1], child)
  /\ cd' = [cd EXCEPT !.stack = setTop([top EXCEPT !.scan = top.scan + 1,
                                                   !.looked = top.looked + 1])]
  /\ UNCHANGED <<doc, set, pc, tr, newSet, calls, reported, scan, nc, cmd, ol>>

\* The inner loop ends without a match and f is not called.
CdReportNothing ==
  /\ cd.pc = "scan"
  /\ top.scan >= e
  /\ cd' = [cd EXCEPT !.pc = "descend"]
  /\ UNCHANGED <<doc, set, pc, tr, newSet, calls, reported, scan, nc, cmd, ol>>

\* The inner loop ends without a match: f(child, offset).
CdReport ==
  /\ cd.pc = "scan"
  /\ top.scan >= e
  /\ cd' = [cd EXCEPT !.pc = "descend",
                      !.out = Append(cd.out, [node |-> child, offset |-> top.offset])]
  /\ UNCHANGED <<doc, set, pc, tr, newSet, calls, reported, scan, nc, cmd, ol>>

\* The recursive call whenever j < oldSize, whatever the markup.
CdRecurseAnyMarkup ==
  /\ cd.pc = "descend"
  /\ top.j < Len(top.old.content)
  /\ cd' = [cd EXCEPT !.pc = "loop",
                      !.stack = Append(cd.stack,
                                       activation(top.old.content[top.j + 1], child,
                                                  top.offset + 1, Len(cd.out)))]
  /\ UNCHANGED <<doc, set, pc, tr, newSet, calls, reported, scan, nc, cmd, ol>>

\* j < oldSize && old.child(j).sameMarkup(child): the recursive call.
CdRecurse ==
  /\ cd.pc = "descend"
  /\ top.j < Len(top.old.content)
  /\ sameMarkup(top.old.content[top.j + 1], child)
  /\ cd' = [cd EXCEPT !.pc = "loop",
                      !.stack = Append(cd.stack,
                                       activation(top.old.content[top.j + 1], child,
                                                  top.offset + 1, Len(cd.out)))]
  /\ UNCHANGED <<doc, set, pc, tr, newSet, calls, reported, scan, nc, cmd, ol>>

\* The visit of the descendants started at the child's own position:
\* child.nodesBetween(0, child.content.size, f, offset).
CdVisitAllSameOffset ==
  /\ cd.pc = "descend"
  /\ ~(/\ top.j < Len(top.old.content)
       /\ sameMarkup(top.old.content[top.j + 1], child))
  /\ cd' = [cd EXCEPT !.pc = "loop",
                      !.out = cd.out \o nodesBetween(child.content, top.offset),
                      !.stack = setTop([top EXCEPT !.offset = top.offset + nodeSize(child),
                                                   !.i = top.i + 1])]
  /\ UNCHANGED <<doc, set, pc, tr, newSet, calls, reported, scan, nc, cmd, ol>>

\* else child.nodesBetween(0, child.content.size, f, offset + 1); then
\* offset += child.nodeSize and i++.
CdVisitAll ==
  /\ cd.pc = "descend"
  /\ ~(/\ top.j < Len(top.old.content)
       /\ sameMarkup(top.old.content[top.j + 1], child))
  /\ cd' = [cd EXCEPT !.pc = "loop",
                      !.out = cd.out \o nodesBetween(child.content, top.offset + 1),
                      !.stack = setTop([top EXCEPT !.offset = top.offset + nodeSize(child),
                                                   !.i = top.i + 1])]
  /\ UNCHANGED <<doc, set, pc, tr, newSet, calls, reported, scan, nc, cmd, ol>>

\* i = curSize: the call returns; its caller goes on after the recursive
\* call with offset += child.nodeSize and i++.
CdReturn ==
  /\ cd.pc = "loop"
  /\ top.i >= Len(top.cur.content)
  /\ IF Len(cd.stack) = 1
     THEN cd' = [cd EXCEPT !.pc = "done", !.stack = <<>>]
     ELSE LET caller == cd.stack[Len(cd.stack) - 1]
              back == [caller EXCEPT
                         !.offset = caller.offset + nodeSize(caller.cur.content[caller.i + 1]),
                         !.i = caller.i + 1]
          IN cd' = [cd EXCEPT !.stack = Append(SubSeq(cd.stack, 1, Len(cd.stack) - 2), back)]
  /\ UNCHANGED <<doc, set, pc, tr, newSet, calls, reported, scan, nc, cmd, ol>>

CdNext ==
  \/ CdNextChild
  \/ CdMatch
  \/ CdMiss
  \/ CdReport
  \/ CdRecurse
  \/ CdVisitAll
  \/ CdReturn

SpecCD == CdInit /\ [][CdNext]_vars

\* JavaScript runs a call to its end: a statement that can run does run.
SpecCDFair == SpecCD /\ WF_vars(CdNext)

\* ------------------------------------------------------ the NodeClass menu
\* The editor as the NodeClass extension reads it: nc.path holds the
\* ancestors of the selection start ($from.node(1) .. $from.node($from.depth)),
\* each with its type and its class attribute; nc.marks is $from.marks(),
\* each mark with its type and its class attribute; nc.empty is
\* selection.empty; nc.shown is the set of class options the menu shows;
\* nc.error is the exception the last command ended with; nc.last is the
\* last thing that ran.  The selection lies inside one text node, so the
\* marks at its start are the marks it carries.
MaxNesting == 2     \* bullet lists inside one another

\* The class attribute's default: null.
null == "null"

\* state.schema.nodes and state.schema.marks
schemaNodes == {"paragraph", "bulletList", "listItem", "table", "tableRow", "tableCell"}
schemaMarks == {"bold", "italic"}

\* this.options.cssClasses: the configured types and their classes.
cssClasses ==
  [t \in {"paragraph", "table", "tableCell", "bulletList", "bold"} |->
     CASE t = "paragraph" -> {"highlight"}
       [] t = "table" -> {"bordered"}
       [] t = "tableCell" -> {"numeric"}
       [] t = "bulletList" -> {"checklist"}
       [] t = "bold" -> {"emphasis"}]

isNodeType(typeName) == typeName \in schemaNodes

\* getApplicableNodes with if (depth > 0) for while (depth > 0).
getApplicableNodesInnermost(state) ==
  LET depth == Len(state.path)
  IN IF depth > 0 /\ state.path[depth].type \in DOMAIN cssClasses
     THEN <<[nodeType |-> state.path[depth].type, node |-> state.path[depth],
             depth |-> depth]>>
     ELSE <<>>

RECURSIVE applicableFrom(_, _)
\* The loop of getApplicableNodes from depth down to 1.
applicableFrom(path, depth) ==
  IF depth = 0 THEN <<>>
  ELSE (IF path[depth].type \in DOMAIN cssClasses
        THEN <<[nodeType |-> path[depth].type, node |-> path[depth], depth |-> depth]>>
        ELSE <<>>)
       \o applicableFrom(path, depth - 1)

\* getApplicableNodes(state, cssClasses): the configured ancestors of the
\* selection start, the innermost first; depth stands for pos, the
\* position before the ancestor at that depth.
getApplicableNodes(state) == applicableFrom(state.path, Len(state.path))

\* getApplicableMarks(state, cssClasses)
getApplicableMarks(state) ==
  {[markType |-> m.type, mark |-> m] : m \in {x \in state.marks : x.type \in DOMAIN cssClasses}}

\* tr.setNodeAttribute(pos, "class", value)
setNodeAttribute(path, depth, value) == [path EXCEPT ![depth].class = value]

\* .extendMarkRange(markType).updateAttributes(markType, {class: value})
updateAttributes(marks, markType, value) ==
  {IF m.type = markType THEN [m EXCEPT !.class = value] ELSE m : m \in marks}

RECURSIVE resetMarks(_, _)
\* for (const { markType } of applicableMarks): the class of each to null.
resetMarks(marks, applicableMarks) ==
  IF applicableMarks = {} THEN marks
  ELSE LET m == CHOOSE x \in applicableMarks : TRUE
       IN resetMarks(updateAttributes(marks, m.markType, null), applicableMarks \ {m})

\* hidden(editor) of the class options of typeName
hidden(state, typeName) ==
  IF isNodeType(typeName)
  THEN LET applicableNodes == getApplicableNodes(state)
       IN ~\E k \in 1..Len(applicableNodes) : applicableNodes[k].nodeType = typeName
  ELSE IF typeName \notin schemaMarks THEN TRUE
  ELSE ~\E mark \in state.marks : mark.type = typeName

\* The class options addMenuItems defines: one per configured type and class.
Options ==
  UNION {{[typeName |-> t, className |-> c] : c \in cssClasses[t]} : t \in DOMAIN cssClasses}

\* The class a node or mark of a type can carry.
classesOf(t) == {null} \cup (IF t \in DOMAIN cssClasses THEN cssClasses[t] ELSE {})

RECURSIVE nested(_)
\* The types above a paragraph in n bullet lists inside one another.
nested(n) == IF n = 0 THEN <<>> ELSE <<"bulletList", "listItem">> \o nested(n - 1)

\* The ancestor types of the selections the editor is started with: the
\* document itself (a node selection at the top), a paragraph, a paragraph
\* in nested lists, a paragraph in a table cell.
Shapes ==
  {<<>>, <<"table", "tableRow", "tableCell", "paragraph">>}
    \cup {nested(n) \o <<"paragraph">> : n \in 0..MaxNesting}

RECURSIVE pathsOf(_)
pathsOf(shape) ==
  IF shape = <<>> THEN {<<>>}
  ELSE {<<[type |-> Head(shape), class |-> c]>> \o rest :
          c \in classesOf(Head(shape)), rest \in pathsOf(Tail(shape))}

Paths == UNION {pathsOf(shape) : shape \in Shapes}

\* The marks at the selection start: at most one of each type.
MarkSets ==
  {bold \cup italic :
     bold \in {{}} \cup {{[type |-> "bold", class |-> c]} : c \in classesOf("bold")},
     italic \in {{}, {[type |-> "italic", class |-> null]}}}

NcInit ==
  /\ InitEditor
  /\ scan = NoScan
  /\ cd = NoRun
  /\ nc \in {[last |-> "none", path |-> p, marks |-> ms, empty |-> em,
              shown |-> {}, error |-> ""] :
               p \in Paths, ms \in MarkSets, em \in BOOLEAN}
  /\ cmd = NoCommand
  /\ ol = NoList

\* The menu is drawn: every class option whose hidden(editor) is false.
UpdateMenu ==
  /\ nc' = [nc EXCEPT !.last = "menu",
                      !.shown = {o \in Options : ~hidden(nc, o.typeName)}]
  /\ UNCHANGED <<doc, set, pc, tr, newSet, calls, reported, scan, cd, cmd, ol>>

\* The command of the global "Reset classes" item: one command that resets
\* node classes, returning true inside its loop, then for every applicable
\* mark extendMarkRange and updateAttributes; chain.run() dispatches.
GlobalReset ==
  /\ nc.error = ""
  /\ LET applicableNodes == getApplicableNodes(nc)
         applicableMarks == getApplicableMarks(nc)
     IN nc' = [nc EXCEPT
                 !.last = "reset",
                 !.path = IF applicableNodes # <<>>
                          THEN setNodeAttribute(nc.path, applicableNodes[1].depth, null)
                          ELSE nc.path,
                 !.marks = resetMarks(nc.marks, applicableMarks),
                 !.empty = IF applicableMarks # {} THEN FALSE ELSE nc.empty]
  /\ UNCHANGED <<doc, set, pc, tr, newSet, calls, reported, scan, cd, cmd, ol>>

RECURSIVE clearTypes(_, _, _)
\* typesToClear.forEach over the node types: unsetNodeClass(typeName) sets
\* the class of the first applicable node of that type to null.
clearTypes(path, applicableNodes, done) ==
  IF applicableNodes = <<>> THEN path
  ELSE LET n == Head(applicableNodes)
       IN IF n.nodeType \in done
          THEN clearTypes(path, Tail(applicableNodes), done)
          ELSE clearTypes(setNodeAttribute(path, n.depth, null), Tail(applicableNodes),
                          done \cup {n.nodeType})

\* The command of the global "Reset all classes" item:
\* editor.chain().focus().unsetNodeClass().run().  unsetNodeClass without a
\* type clears every type of typesToClear; for an applicable mark it adds
\* markType.name, which is undefined, and unsetNodeClass(undefined) is the
\* same call again, without end: the call ends with a RangeError before
\* run(), and nothing is dispatched.
GlobalResetAll ==
  /\ nc.error = ""
  /\ IF getApplicableMarks(nc) # {}
     THEN nc' = [nc EXCEPT !.last = "resetAll", !.error = "RangeError"]
     ELSE nc' = [nc EXCEPT !.last = "resetAll",
                           !.path = clearTypes(nc.path, getApplicableNodes(nc), {})]
  /\ UNCHANGED <<doc, set, pc, tr, newSet, calls, reported, scan, cd, cmd, ol>>

NcNext ==
  \/ UpdateMenu
  \/ GlobalReset
  \/ GlobalResetAll

SpecNodeClass == NcInit /\ [][NcNext]_vars

\* ------------------------------------------------- the NodeClass commands
\* The commands addCommands defines, called as editor.commands.X(...): the
\* command works on a transaction that starts from the editor's state and
\* is dispatched when the command has returned.  setNodeClass and
\* unsetNodeClass with a type run in one step; unsetNodeClass without a
\* type is followed call by call.
MaxCallStack == 3   \* the activations the engine's call stack has room for

\* What markType.name is when markType is a string.
undefined == "undefined"

\* The types the commands are called with: every type of the schema and
\* one that is in no schema; and the classes.
CommandTypes == schemaNodes \cup schemaMarks \cup {"heading"}
CommandClasses == {"highlight", "wide"}

str(b) == IF b THEN "true" ELSE "false"

\* The applicable node of the type that is last in the list.
lastOfType(applicableNodes, type) ==
  LET hits == {k \in 1..Len(applicableNodes) : applicableNodes[k].nodeType = type}
  IN IF hits = {} THEN 0
     ELSE applicableNodes[CHOOSE k \in hits : \A h \in hits : h <= k].depth

\* for (const { node, pos } of applicableNodes) if (node.type.name === type):
\* the first applicable node of the type, as its depth; 0 if there is none.
firstOfType(applicableNodes, type) ==
  LET hits == {k \in 1..Len(applicableNodes) : applicableNodes[k].nodeType = type}
  IN IF hits = {} THEN 0
     ELSE applicableNodes[CHOOSE k \in hits : \A h \in hits : k <= h].depth

\* commands.extendMarkRange(type): the selection becomes the range of the
\* mark of that type around its start, if there is one.
extendMarkRange(state, type) ==
  IF \E m \in state.marks : m.type = type THEN FALSE ELSE state.empty

\* The body without the test of cssClasses[type].
classCommandUnchecked(state, type, value) ==
  IF isNodeType(type)
  THEN LET depth == firstOfType(getApplicableNodes(state), type)
       IN IF depth = 0
          THEN [result |-> FALSE, path |-> state.path, marks |-> state.marks,
                empty |-> state.empty]
          ELSE [result |-> TRUE, path |-> setNodeAttribute(state.path, depth, value),
                marks |-> state.marks, empty |-> state.empty]
  ELSE [result |-> type \in schemaMarks, path |-> state.path,
        marks |-> updateAttributes(state.marks, type, value),
        empty |-> extendMarkRange(state, type)]

\* The body setNodeClass(type, value) and unsetNodeClass(type), value null,
\* share: false for a type without classes; for a node type the class of
\* the first applicable node of the type is set, false if there is none;
\* for a mark type extendMarkRange and updateAttributes.
classCommand(state, type, value) ==
  IF type \notin DOMAIN cssClasses
  THEN [result |-> FALSE, path |-> state.path, marks |-> state.marks,
        empty |-> state.empty]
  ELSE IF isNodeType(type)
  THEN LET depth == firstOfType(getApplicableNodes(state), type)
       IN IF depth = 0
          THEN [result |-> FALSE, path |-> state.path, marks |-> state.marks,
                empty |-> state.empty]
          ELSE [result |-> TRUE, path |-> setNodeAttribute(state.path, depth, value),
                marks |-> state.marks, empty |-> state.empty]
  ELSE [result |-> TRUE, path |-> state.path,
        marks |-> updateAttributes(state.marks, type, value),
        empty |-> extendMarkRange(state, type)]

\* No command is running and none has ended with an exception.
Idle == cmd.stack = <<>> /\ nc.error = ""

\* editor.commands.setNodeClass(type, className)
SetNodeClass ==
  /\ Idle
  /\ \E type \in CommandTypes, className \in CommandClasses :
       LET r == classCommand(nc, type, className)
       IN /\ nc' = [nc EXCEPT !.last = "setNodeClass", !.path = r.path,
                              !.marks = r.marks, !.empty = r.empty]
          /\ cmd' = [NoCommand EXCEPT !.name = "setNodeClass", !.type = type,
                                      !.className = className, !.result = str(r.result)]
  /\ UNCHANGED <<doc, set, pc, tr, newSet, calls, reported, scan, cd, ol>>

\* editor.commands.unsetNodeClass(type) with a type
UnsetNodeClass ==
  /\ Idle
  /\ \E type \in CommandTypes :
       LET r == classCommand(nc, type, null)
       IN /\ nc' = [nc EXCEPT !.last = "unsetNodeClass", !.path = r.path,
                              !.marks = r.marks, !.empty = r.empty]
          /\ cmd' = [NoCommand EXCEPT !.name = "unsetNodeClass", !.type = type,
                                      !.result = str(r.result)]
  /\ UNCHANGED <<doc, set, pc, tr, newSet, calls, reported, scan, cd, ol>>

RECURSIVE nodeTypesOf(_, _)
\* typesToClear.add(nodeType) for every applicable node: a Set keeps the
\* order of the first insertions.
nodeTypesOf(applicableNodes, seen) ==
  IF applicableNodes = <<>> THEN <<>>
  ELSE LET t == Head(applicableNodes).nodeType
       IN IF t \in seen THEN nodeTypesOf(Tail(applicableNodes), seen)
          ELSE <<t>> \o nodeTypesOf(Tail(applicableNodes), seen \cup {t})

\* typesToClear: the applicable node types, then markType.name for every
\* applicable mark; markType is the name itself, so what is added is
\* undefined, once.
typesToClear(state) ==
  nodeTypesOf(getApplicableNodes(state), {})
    \o (IF getApplicableMarks(state) # {} THEN <<undefined>> ELSE <<>>)

\* The state the command reads: that of its transaction.
chainable == [path |-> cmd.path, marks |-> cmd.marks, empty |-> cmd.empty]
frame == cmd.stack[Len(cmd.stack)]
setFrame(f) == [cmd.stack EXCEPT ![Len(cmd.stack)] = f]

\* editor.commands.unsetNodeClass(): no type, the clear-all branch.
UnsetAllCall ==
  /\ Idle
  /\ cmd' = [NoCommand EXCEPT !.name = "unsetNodeClass", !.type = undefined,
                              !.stack = <<[todo |-> typesToClear(nc), success |-> TRUE]>>,
                              !.path = nc.path, !.marks = nc.marks, !.empty = nc.empty]
  /\ UNCHANGED <<doc, set, pc, tr, newSet, calls, reported, scan, cd, nc, ol>>

\* success = success && commands.unsetNodeClass(typeName) for a typeName
\* that is a type: the per-type clear, on the same transaction.
UnsetClear ==
  /\ cmd.stack # <<>>
  /\ frame.todo # <<>>
  /\ Head(frame.todo) # undefined \/ ~frame.success
  /\ IF frame.success
     THEN LET r == classCommand(chainable, Head(frame.todo), null)
          IN cmd' = [cmd EXCEPT !.stack = setFrame([todo |-> Tail(frame.todo),
                                                    success |-> r.result]),
                                !.cleared = Append(cmd.cleared, Head(frame.todo)),
                                !.path = r.path, !.marks = r.marks, !.empty = r.empty]
     ELSE cmd' = [cmd EXCEPT !.stack = setFrame([frame EXCEPT !.todo = Tail(frame.todo)])]
  /\ UNCHANGED <<doc, set, pc, tr, newSet, calls, reported, scan, cd, nc, ol>>

\* commands.unsetNodeClass(undefined): !type holds, the clear-all branch is
\* entered again, on the same transaction.
UnsetReenter ==
  /\ cmd.stack # <<>>
  /\ frame.todo # <<>>
  /\ Head(frame.todo) = undefined /\ frame.success
  /\ Len(cmd.stack) < MaxCallStack
  /\ cmd' = [cmd EXCEPT !.stack = Append(cmd.stack, [todo |-> typesToClear(chainable),
                                                      success |-> TRUE])]
  /\ UNCHANGED <<doc, set, pc, tr, newSet, calls, reported, scan, cd, nc, ol>>

\* The same call with no room left on the call stack: a RangeError ends
\* every activation and the transaction is not dispatched.
UnsetOverflow ==
  /\ cmd.stack # <<>>
  /\ frame.todo # <<>>
  /\ Head(frame.todo) = undefined /\ frame.success
  /\ Len(cmd.stack) >= MaxCallStack
  /\ cmd' = [cmd EXCEPT !.stack = <<>>, !.result = "RangeError"]
  /\ nc' = [nc EXCEPT !.last = "unsetNodeClass", !.error = "RangeError"]
  /\ UNCHANGED <<doc, set, pc, tr, newSet, calls, reported, scan, cd, ol>>

\* return success: to the calling activation, or, from the outermost one,
\* to the editor, which dispatches the transaction.
UnsetReturn ==
  /\ cmd.stack # <<>>
  /\ frame.todo = <<>>
  /\ IF Len(cmd.stack) = 1
     THEN /\ cmd' = [cmd EXCEPT !.stack = <<>>, !.result = str(frame.success)]
          /\ nc' = [nc EXCEPT !.last = "unsetNodeClass", !.path = cmd.path,
                              !.marks = cmd.marks, !.empty = cmd.empty]
     ELSE LET caller == cmd.stack[Len(cmd.stack) - 1]
              back == [todo |-> Tail(caller.todo), success |-> frame.success]
          IN /\ cmd' = [cmd EXCEPT
                          !.stack = Append(SubSeq(cmd.stack, 1, Len(cmd.stack) - 2), back)]
             /\ nc' = nc
  /\ UNCHANGED <<doc, set, pc, tr, newSet, calls, reported, scan, cd, ol>>

CmdNext ==
  \/ SetNodeClass
  \/ UnsetNodeClass
  \/ UnsetAllCall
  \/ UnsetClear
  \/ UnsetReenter
  \/ UnsetOverflow
  \/ UnsetReturn

SpecCommands == NcInit /\ [][CmdNext]_vars

\* ------------------------------------------------------- the ordered list
\* ol is the editor as the OrderedList extension sees it: ol.listTypes and
\* ol.enableListAttributes are the options; ol.element is an <ol> element
\* with its type attribute (getAttribute("type"), null if absent) and its
\* data-type attribute (dataset.type, undefined if absent); ol.attrs holds
\* the attributes start and type of the list node; ol.pc says what ran last.
MaxListTypes == 2   \* the items of a configured listTypes other than the default

htmlToCssMap ==
  [k \in {"1", "a", "A", "i", "I"} |->
     CASE k = "1" -> "decimal"
       [] k = "a" -> "lower-alpha"
       [] k = "A" -> "upper-alpha"
       [] k = "i" -> "lower-roman"
       [] k = "I" -> "upper-roman"]

\* Object.fromEntries(Object.entries(htmlToCssMap).map(([key, value]) => [value, key]))
cssToHtmlMap ==
  [v \in {htmlToCssMap[k] : k \in DOMAIN htmlToCssMap} |->
     CHOOSE k \in DOMAIN htmlToCssMap : htmlToCssMap[k] = v]

\* map[key] for a key the map may not have.
lookup(map, key) == IF key \in DOMAIN map THEN map[key] ELSE undefined

\* Whether a value counts as true in a condition.
truthy(v) == v \notin {null, undefined, ""}

DEFAULT_LIST_TYPES ==
  <<[label |-> "1, 2, 3, ...", type |-> "decimal"],
    [label |-> "a, b, c, ...", type |-> "lower-alpha"],
    [label |-> "A, B, C, ...", type |-> "upper-alpha"],
    [label |-> "i, ii, iii, ...", type |-> "lower-roman"],
    [label |-> "I, II, III, ...", type |-> "upper-roman"],
    [label |-> "Bullets", type |-> "disc"]>>

\* The configurations of listTypes: the default, and every choice of up to
\* MaxListTypes different items of it in any order.
ListTypeConfigs ==
  {DEFAULT_LIST_TYPES}
    \cup {s \in SeqsUpTo({DEFAULT_LIST_TYPES[k] : k \in 1..Len(DEFAULT_LIST_TYPES)},
                         MaxListTypes) :
            /\ s # <<>>
            /\ \A a, b \in 1..Len(s) : a # b => s[a] # s[b]}

\* Array.prototype.includes
includes(array, v) == \E k \in 1..Len(array) : array[k] = v

\* parseHTML of the type attribute that prefers the HTML type attribute to
\* data-type.
parseHTMLTypeFirst(listTypes, element) ==
  LET typeAttribute == element.type
      dataType == element.dataType
      valid_types == [k \in 1..Len(listTypes) |-> listTypes[k].type]
  IN IF truthy(typeAttribute) /\ includes(valid_types, lookup(htmlToCssMap, typeAttribute))
     THEN lookup(htmlToCssMap, typeAttribute)
     ELSE IF truthy(dataType) /\ includes(valid_types, dataType)
     THEN dataType
     ELSE valid_types[1]

\* parseHTML of the type attribute
parseHTML(listTypes, element) ==
  LET typeAttribute == element.type
      dataType == element.dataType
      valid_types == [k \in 1..Len(listTypes) |-> listTypes[k].type]
  IN IF truthy(dataType) /\ includes(valid_types, dataType)
     THEN dataType
     ELSE IF truthy(typeAttribute) /\ includes(valid_types, lookup(htmlToCssMap, typeAttribute))
     THEN lookup(htmlToCssMap, typeAttribute)
     ELSE valid_types[1]

\* renderHTML of the type attribute; an attribute whose value is null is
\* not written, so the element has no such attribute.
renderHTML(attributes) ==
  LET type == IF truthy(lookup(cssToHtmlMap, attributes.type))
              THEN lookup(cssToHtmlMap, attributes.type)
              ELSE null
      dataType == attributes.type
  IN [type |-> type, dataType |-> IF dataType = null THEN undefined ELSE dataType]

\* The values the two attributes of a pasted or loaded <ol> can have.
TypeAttributes == {null, "", "1", "a", "A", "i", "I", "x", "disc"}
DataTypes ==
  {undefined, "", "x", "square"} \cup {DEFAULT_LIST_TYPES[k].type : k \in 1..Len(DEFAULT_LIST_TYPES)}

listEditor(listTypes, enable, element, attrs, at) ==
  [pc |-> at, listTypes |-> listTypes, enableListAttributes |-> enable,
   element |-> element, attrs |-> attrs, path |-> <<>>,
   dialog |-> [given |-> FALSE, start |-> <<>>, listType |-> ""],
   values |-> [given |-> FALSE, start |-> <<>>, listType |-> ""],
   updates |-> 0, result |-> "none"]

ParseInit ==
  /\ InitEditor
  /\ scan = NoScan
  /\ cd = NoRun
  /\ nc = NoEditor
  /\ cmd = NoCommand
  /\ ol \in {listEditor(lt, TRUE, [type |-> t, dataType |-> d],
                        [start |-> 1, type |-> null], "load") :
               lt \in ListTypeConfigs, t \in TypeAttributes, d \in DataTypes}

\* The element is parsed: the list node gets the type parseHTML returns.
ParseHTML ==
  /\ ol.pc \in {"load", "rendered"}
  /\ ol' = [ol EXCEPT !.attrs.type = parseHTML(ol.listTypes, ol.element),
                      !.pc = IF ol.pc = "load" THEN "parsed" ELSE "reparsed"]
  /\ UNCHANGED <<doc, set, pc, tr, newSet, calls, reported, scan, cd, nc, cmd>>

\* The list node is written out: the element has the attributes renderHTML
\* returns.
RenderHTML ==
  /\ ol.pc = "parsed"
  /\ ol' = [ol EXCEPT !.element = renderHTML(ol.attrs), !.pc = "rendered"]
  /\ UNCHANGED <<doc, set, pc, tr, newSet, calls, reported, scan, cd, nc, cmd>>

ParseNext == ParseHTML \/ RenderHTML

SpecParse == ParseInit /\ [][ParseNext]_vars

\* ------------------------------------------- the list properties dialog
\* updateListAttributes on an editor whose selection has the ancestors
\* ol.path (the types from the top down to $anchor.parent); ol.attrs are
\* the attributes of the ordered list among them.  ol.dialog holds the
\* values the dialog was opened with, ol.values what its promise resolved
\* with (given is false for a dialog that was dismissed), ol.updates counts
\* the transactions the command has dispatched, ol.result is what the
\* command returned.  Form values are strings, kept as sequences of
\* characters.
Digits == <<"0", "1", "2", "3", "4", "5", "6", "7", "8", "9">>

isDigit(c) == \E k \in 1..Len(Digits) : Digits[k] = c
digitValue(c) == (CHOOSE k \in 1..Len(Digits) : Digits[k] = c) - 1

RECURSIVE String(_)
\* String(start)
String(n) ==
  IF n < 0 THEN <<"-">> \o String(0 - n)
  ELSE IF n < 10 THEN <<Digits[n + 1]>>
  ELSE String(n \div 10) \o <<Digits[(n % 10) + 1]>>

RECURSIVE leadingDigits(_, _)
\* The value of the digits a string starts with; acc is the value so far.
leadingDigits(s, acc) ==
  IF s = <<>> \/ ~isDigit(Head(s)) THEN acc
  ELSE leadingDigits(Tail(s), 10 * acc + digitValue(Head(s)))

\* Number.parseInt(string, 10): an optional sign and the digits that
\* follow; NaN if there is no digit.
parseInt(s) ==
  LET negative == s # <<>> /\ Head(s) = "-"
      rest == IF s # <<>> /\ Head(s) \in {"-", "+"} THEN Tail(s) ELSE s
  IN IF rest = <<>> \/ ~isDigit(Head(rest)) THEN [nan |-> TRUE, value |-> 0]
     ELSE [nan |-> FALSE,
           value |-> IF negative THEN 0 - leadingDigits(rest, 0) ELSE leadingDigits(rest, 0)]

\* typeToLabel(listTypes, type)
typeToLabel(listTypes, type) ==
  LET found == {k \in 1..Len(listTypes) : listTypes[k].type = type}
  IN IF found # {} THEN listTypes[CHOOSE k \in found : \A h \in found : k <= h].label
     ELSE listTypes[1].label

\* labelToType(listTypes, label)
labelToType(listTypes, label) ==
  LET found == {k \in 1..Len(listTypes) : listTypes[k].label = label}
  IN IF found # {} THEN listTypes[CHOOSE k \in found : \A h \in found : k <= h].type
     ELSE listTypes[1].type

\* The ancestors of the selections: in an ordered list, in no list, in a
\* bullet list inside an ordered list.
ListPaths ==
  {<<"orderedList", "listItem", "paragraph">>,
   <<"paragraph">>,
   <<"orderedList", "listItem", "bulletList", "listItem", "paragraph">>}

\* for (let depth = 1; depth <= 3; depth++) selection.$anchor.node(-depth):
\* whether one of the three nodes above $anchor.parent is an orderedList.
listNodeFound(path) ==
  \E depth \in 1..3 : Len(path) - depth >= 1 /\ path[Len(path) - depth] = "orderedList"

\* The ordered lists updateAttributes("orderedList", ...) reaches: those
\* among the ancestors of the selection.
hasList(path) == \E k \in 1..Len(path) : path[k] = "orderedList"

NoValues == [given |-> FALSE, start |-> <<>>, listType |-> ""]

\* What the dialog can resolve with: nothing, or a start and a list type,
\* one of the labels offered or another.
StartInputs ==
  {<<>>, <<"0">>, <<"2">>, <<"x">>, <<"-">>, <<"0", "0">>, <<"2", "0">>,
   <<"-", "2">>, <<"-", "0">>, <<"2", "x">>, <<"x", "2">>}
Resolutions(listTypes) ==
  {NoValues}
    \cup {[given |-> TRUE, start |-> s, listType |-> l] :
            s \in StartInputs,
            l \in {listTypes[k].label : k \in 1..Len(listTypes)} \cup {"other"}}

ListInit ==
  /\ InitEditor
  /\ scan = NoScan
  /\ cd = NoRun
  /\ nc = NoEditor
  /\ cmd = NoCommand
  /\ ol \in {[listEditor(lt, en, [type |-> null, dataType |-> undefined],
                         [start |-> st, type |-> ty], "idle") EXCEPT !.path = p] :
               lt \in ListTypeConfigs, en \in BOOLEAN, p \in ListPaths,
               st \in {1, 3}, ty \in {null, "decimal", "disc"}}

\* updateListAttributes(): false if the dialog is not enabled; else the
\* dialog opens with the list's start and the label of its type (1 and
\* decimal if no list node was found) and the command returns nothing.
UpdateListAttributes ==
  /\ ol.pc = "idle"
  /\ IF ~ol.enableListAttributes
     THEN ol' = [ol EXCEPT !.result = "false", !.updates = 0]
     ELSE LET listNode == IF listNodeFound(ol.path) THEN [attrs |-> ol.attrs]
                          ELSE [attrs |-> [start |-> 1, type |-> "decimal"]]
              start == IF listNode.attrs.start = 0 THEN 1 ELSE listNode.attrs.start
              type == IF truthy(listNode.attrs.type) THEN listNode.attrs.type ELSE "decimal"
          IN ol' = [ol EXCEPT !.pc = "open",
                              !.dialog = [given |-> TRUE, start |-> String(start),
                                          listType |-> typeToLabel(ol.listTypes, type)],
                              !.values = NoValues,
                              !.updates = 0,
                              !.result = "undefined"]
  /\ UNCHANGED <<doc, set, pc, tr, newSet, calls, reported, scan, cd, nc, cmd>>

\* The dialog's promise resolves: with the values of the form, or without.
DialogResolve ==
  /\ ol.pc = "open"
  /\ \E v \in Resolutions(ol.listTypes) :
       ol' = [ol EXCEPT !.pc = "resolved", !.values = v]
  /\ UNCHANGED <<doc, set, pc, tr, newSet, calls, reported, scan, cd, nc, cmd>>

\* The transaction of the callback: updateAttributes("orderedList", ...).
applyListAttributes(o, startValue, listType) ==
  [o EXCEPT !.pc = "idle",
            !.attrs = IF hasList(o.path) THEN [start |-> startValue, type |-> listType]
                      ELSE o.attrs,
            !.updates = o.updates + 1]

\* The callback without if (attrs): the values of a dismissed dialog are
\* applied as well.
ThenAlways ==
  /\ ol.pc = "resolved"
  /\ LET listType == labelToType(ol.listTypes, ol.values.listType)
         parsed == parseInt(ol.values.start)
         startValue == IF parsed.nan \/ parsed.value = 0 THEN 1 ELSE parsed.value
     IN ol' = applyListAttributes(ol, startValue, listType)
  /\ UNCHANGED <<doc, set, pc, tr, newSet, calls, reported, scan, cd, nc, cmd>>

\* .then((attrs) => { if (attrs) { ... } }): the label becomes a type, the
\* start a number, 1 if parseInt gives NaN or 0, and one transaction
\* applies both.
Then ==
  /\ ol.pc = "resolved"
  /\ IF ol.values.given
     THEN LET listType == labelToType(ol.listTypes, ol.values.listType)
              parsed == parseInt(ol.values.start)
              startValue == IF parsed.nan \/ parsed.value = 0 THEN 1 ELSE parsed.value
          IN ol' = applyListAttributes(ol, startValue, listType)
     ELSE ol' = [ol EXCEPT !.pc = "idle"]
  /\ UNCHANGED <<doc, set, pc, tr, newSet, calls, reported, scan, cd, nc, cmd>>

ListNext ==
  \/ UpdateListAttributes
  \/ DialogResolve
  \/ Then

SpecList == ListInit /\ [][ListNext]_vars

\* ------------------------------------------------------------------ claims
\* apply has made every call of the callback and is about to return newSet,
\* the set for tr.doc.
Finished == pc = "apply" /\ calls = <<>>

\* The (from, to, tag) triples of a set.
triples(s) == DOMAIN s

\* The triples of a set that lie inside [from, to].
within(s, from, to) == {d \in DOMAIN s : from <= d.from /\ d.to <= to}

\* C1 (incremental correctness): for every document and every edit, the set
\* apply returns has exactly the triples of a full scan of the new document.
C1_IncrementalCorrectness ==
  Finished => triples(newSet) = triples(typographicDecorations(tr.doc))

\* C2 (locality): after typing in, or replacing a character of, one text
\* node N, every annotation of the previous set that lies outside N's old
\* span is in the new set at its mapped position, and the new set has no
\* other annotation outside N's new span.
C2_Locality ==
  (Finished /\ tr.kind \in {"insertText", "replace"}) =>
    LET from == inlineStart(doc, tr.at, tr.to)
        oldTo == from + nodeSize(doc.content[tr.at].content[tr.to])
        newTo == from + nodeSize(tr.doc.content[tr.at].content[tr.to])
        kept == {mapDecoration(tr.mapping, d) :
                   d \in {x \in DOMAIN set : x.to <= from \/ x.from >= oldTo}}
    IN {d \in DOMAIN newSet : d.to <= from \/ d.from >= newTo} = kept

\* C3 (no duplicates): neither the published set nor the set apply returns
\* ever holds an annotation twice.
C3_NoDuplicates ==
  /\ \A d \in DOMAIN set : set[d] = 1
  /\ Finished => \A d \in DOMAIN newSet : newSet[d] = 1

\* C3 witness: apply has finished a cycle in which a reported node was
\* rescanned whose annotation had also come through the mapping.
C3_Witness ==
  /\ Finished
  /\ \E k \in 1..Len(reported) :
       \E d \in DOMAIN mapSet(set, tr.mapping, tr.doc) :
         /\ d \in DOMAIN newSet
         /\ reported[k].offset <= d.from
         /\ d.to <= reported[k].offset + nodeSize(reported[k].node)
         /\ isLeaf(reported[k].node)

\* An annotation that fits the document: an inline one covers one character
\* that is configured with its class, a node one spans a hardBreak node.
fits(d, dc) ==
  LET all == descendants(dc)
  IN \E k \in 1..Len(all) :
       LET n == all[k].node
           o == all[k].offset
       IN IF d.kind = "inline"
          THEN /\ isText(n)
               /\ d.to = d.from + 1
               /\ o <= d.from
               /\ d.from < o + Len(n.text)
               /\ n.text[d.from - o + 1] \in DOMAIN classes
               /\ classes[n.text[d.from - o + 1]] = d.class
          ELSE /\ n.type = "hardBreak"
               /\ o = d.from
               /\ o + nodeSize(n) = d.to

\* C4 (no stale entries): every annotation of the published set fits the
\* current document, and every annotation apply returns fits tr.doc.
C4_NoStale ==
  /\ pc = "idle" => \A d \in DOMAIN set : fits(d, doc)
  /\ Finished => \A d \in DOMAIN newSet : fits(d, tr.doc)

\* C4 witness: apply has finished a cycle whose mapping had carried an
\* annotation to a place where it no longer fits.
C4_Witness ==
  /\ Finished
  /\ \E d \in DOMAIN mapSet(set, tr.mapping, tr.doc) : ~fits(d, tr.doc)

\* C5 (no-op edits): a transaction without steps on the same document makes
\* no call of the callback and returns the triples it was given.
C5_NoOpIdempotent ==
  (pc = "apply" /\ tr.kind = "noChange") =>
    /\ calls = <<>>
    /\ reported = <<>>
    /\ triples(newSet) = triples(set)

\* C5 witness: a no-op transaction on a document with annotations.
C5_Witness ==
  /\ Finished
  /\ tr.kind = "noChange"
  /\ set # EmptyBag
  /\ Len(doc.content) = MaxBlocks

\* C6 (full-rescan equivalence): inserting all of a document into the empty
\* document gives the triples of a full scan of it.
C6_FullRescanEquivalence ==
  (Finished /\ tr.kind = "insertBlocks" /\ doc.content = <<>>) =>
    triples(newSet) = triples(typographicDecorations(tr.doc))

\* A transaction that swaps two adjacent top-level children.
SwapsNeighbours ==
  tr.kind = "moveBlock" /\ (tr.at = tr.to + 1 \/ tr.to = tr.at + 1)

C10_AtomicReplace ==
  [][decorations' # decorations =>
       /\ Finished
       /\ pc' = "idle"
       /\ decorations' = newSet]_vars

\* C10 witness: in the middle of a cycle, some calls made and some not, the
\* set being built differs from the published one.
C10_Witness ==
  /\ pc = "apply"
  /\ reported # <<>>
  /\ calls # <<>>
  /\ newSet # set
  /\ newSet # mapSet(set, tr.mapping, tr.doc)

\* C7 (scanner on text): for a text node at position o the scanner returns
\* exactly one inline annotation [o+i, o+i+1) with the class of the
\* character for every index i that holds a configured character, and
\* nothing else: none for another index, none wider than one character.
C7_ScannerText ==
  (scan.pc = "return" /\ isText(scan.node)) =>
    LET out == scan.decorations
        t == scan.node.text
        o == scan.position
    IN /\ \A i \in 0..(Len(t) - 1) :
            t[i + 1] \in DOMAIN classes =>
              Cardinality({k \in 1..Len(out) :
                             out[k] = inline(o + i, o + i + 1, classes[t[i + 1]])}) = 1
       /\ \A k \in 1..Len(out) :
            /\ out[k].kind = "inline"
            /\ out[k].to = out[k].from + 1
            /\ out[k].from - o \in 0..(Len(t) - 1)
            /\ t[out[k].from - o + 1] \in DOMAIN classes
            /\ out[k].class = classes[t[out[k].from - o + 1]]

\* C7 witness: a scanned text node with two adjacent configured characters
\* of different classes and a character that is not configured.
C7_Witness ==
  /\ scan.pc = "return"
  /\ isText(scan.node)
  /\ Len(scan.decorations) < Len(scan.node.text)
  /\ \E k \in 1..(Len(scan.decorations) - 1) :
       /\ scan.decorations[k].to = scan.decorations[k + 1].from
       /\ scan.decorations[k].class # scan.decorations[k + 1].class

\* C8 (scanner on structural nodes): for a hardBreak node at position p the
\* scanner returns the one node annotation [p, p + nodeSize) with class
\* prose-editor-br; for a node that is neither a hardBreak nor a text node
\* with a configured character it returns nothing.
C8_ScannerNode ==
  scan.pc = "return" =>
    /\ scan.node.type = "hardBreak" =>
         scan.decorations =
           <<node(scan.position, scan.position + nodeSize(scan.node), "prose-editor-br")>>
    /\ (/\ scan.node.type # "hardBreak"
        /\ ~(isText(scan.node) /\ \E i \in 1..Len(scan.node.text) :
                                    scan.node.text[i] \in DOMAIN classes))
         => scan.decorations = <<>>

\* C8 witness: a scanned hardBreak node that is not at the start.
C8_Witness ==
  /\ scan.pc = "return"
  /\ scan.node.type = "hardBreak"
  /\ scan.position > 0
  /\ scan.decorations # <<>>

\* C11 (termination): every call of changedDescendants on finite documents
\* returns after finitely many steps, and every recursive call is made on
\* a child of the node of its caller, a strictly smaller subtree of both
\* the old and the new document.
C11_Termination ==
  /\ <>(cd.pc = "done")
  /\ [](\A k \in 2..Len(cd.stack) :
          LET inner == cd.stack[k]
              outer == cd.stack[k - 1]
          IN /\ inner.cur = outer.cur.content[outer.i + 1]
             /\ inner.old = outer.old.content[outer.j + 1]
             /\ nodeSize(inner.cur) < nodeSize(outer.cur)
             /\ nodeSize(inner.old) < nodeSize(outer.old))

\* C11 witness: a call has returned after it went into a changed paragraph
\* and found the new text node there but not its unchanged sibling.
C11_Witness ==
  /\ cd.pc = "done"
  /\ \E k \in 1..Len(cd.out) : cd.out[k].node.text = <<"a", "a">>
  /\ \A k \in 1..Len(cd.out) : cd.out[k].node.type # "hardBreak"
  /\ Len(cd.cur.content) = MaxCur

\* C12 (structural inconsistency fails loudly): a call of changedDescendants
\* on an old and a new root of different type or attributes does not return
\* normally; only calls on compatible roots reach their return.
C12_FailsLoudly ==
  cd.pc = "done" => sameMarkup(cd.old, cd.cur)

\* The configured node types whose class options the menu shows.
shownNodeTypes == {o.typeName : o \in {x \in nc.shown : isNodeType(x.typeName)}}

\* C13 (NodeClass reset): after the global reset command has run, every
\* ancestor of the selection start of a configured type, and every
\* configured mark at the selection start, has the class null.
C13_ResetClearsAll ==
  nc.last \in {"reset", "resetAll"} =>
    /\ \A k \in 1..Len(nc.path) :
         nc.path[k].type \in DOMAIN cssClasses => nc.path[k].class = null
    /\ \A m \in nc.marks : m.type \in DOMAIN cssClasses => m.class = null

\* C14 (NodeClass mark options): the class option of a mark type is shown
\* exactly when the selection is not empty and carries a mark of that type;
\* it is hidden for a cursor and for a selection without the mark.
C14_MarkOptionsHidden ==
  nc.last = "menu" =>
    \A o \in Options :
      ~isNodeType(o.typeName) =>
        (o \in nc.shown <=> (~nc.empty /\ \E m \in nc.marks : m.type = o.typeName))

windowHits(old, cur, i, j) ==
  {s \in j..(Min(Len(old.content), i + 3) - 1) :
     sameNode(old.content[s + 1], cur.content[i + 1])}

RECURSIVE cursorAt(_, _, _)
\* The lagging cursor when new child i is reached: after every match at
\* old index s it is s + 1, and it stays where it is otherwise.
cursorAt(old, cur, i) ==
  IF i = 0 THEN 0
  ELSE LET j == cursorAt(old, cur, i - 1)
           hits == windowHits(old, cur, i - 1, j)
       IN IF hits = {} THEN j
          ELSE (CHOOSE s \in hits : \A t \in hits : s <= t) + 1

\* A call of changedDescendants has reached the end of its outer loop.
AtReturn == cd.pc = "loop" /\ top.i >= Len(top.cur.content)

\* C16 (reporting): when a call of changedDescendants is at its end, the
\* callback was invoked exactly once for every new child with no identical
\* old child in its window, and never for a matched child or a position
\* inside one; the lagging cursor is one past the last match.
C16_Reporting ==
  AtReturn =>
    LET f == top
        made == SubSeq(cd.out, f.base + 1, Len(cd.out))
    IN /\ \A i \in 0..(Len(f.cur.content) - 1) :
            LET c == f.cur.content[i + 1]
                o == f.start + fragmentSize(SubSeq(f.cur.content, 1, i))
                matched == windowHits(f.old, f.cur, i, cursorAt(f.old, f.cur, i)) # {}
            IN /\ Cardinality({k \in 1..Len(made) : made[k] = [node |-> c, offset |-> o]})
                    = IF matched THEN 0 ELSE 1
               /\ matched =>
                    ~\E k \in 1..Len(made) :
                        o <= made[k].offset /\ made[k].offset < o + nodeSize(c)
       /\ f.j = cursorAt(f.old, f.cur, Len(f.cur.content))

\* C16 witness: the outermost call is at its end with a child reported and
\* a child matched ahead of the cursor, which has overtaken i.
C16_Witness ==
  /\ AtReturn
  /\ Len(cd.stack) = 1
  /\ top.i = MaxCur
  /\ top.j > top.i
  /\ cd.out # <<>>

\* C17 as stated (bounded look-ahead): no more than 3 old children are
\* compared with one new child.
C17_AtMostThree ==
  \A k \in 1..Len(cd.stack) : cd.stack[k].looked <= 3

\* C17 (bounded look-ahead, amended): the old children compared with new
\* child i are those from the lagging cursor j on, in order, and none at
\* index min(oldSize, i + 3) or beyond: at most i + 3 - j of them.
C17_BoundedLookAhead ==
  cd.pc = "scan" =>
    /\ top.j <= top.scan
    /\ top.scan <= Min(Len(top.old.content), top.i + 3)
    /\ top.looked = top.scan - top.j
    /\ top.looked <= top.i + 3 - top.j

\* C17 witness: a fourth old child is about to be compared with one new
\* child, the cursor j lagging behind i.
C17_Witness ==
  /\ cd.pc = "scan"
  /\ top.looked = 3
  /\ top.scan < Min(Len(top.old.content), top.i + 3)
  /\ top.j < top.i

\* C18 (recurse or visit all): right after the callback for an unmatched
\* child at offset o, the next step is the recursive call on (old child at
\* j, child) at o + 1 if j is inside the old sequence and that old child
\* has the child's markup, and the callback for every descendant of the
\* child otherwise; neither step, nor the return of the recursive call,
\* changes j.
C18_RecurseOrVisitAll ==
  [][/\ cd.pc = "descend" =>
          LET f == cd.stack[Len(cd.stack)]
              c == f.cur.content[f.i + 1]
              o == f.offset
          IN /\ cd.out[Len(cd.out)] = [node |-> c, offset |-> o]
             /\ IF f.j < Len(f.old.content) /\ sameMarkup(f.old.content[f.j + 1], c)
                THEN /\ cd'.out = cd.out
                     /\ Len(cd'.stack) = Len(cd.stack) + 1
                     /\ cd'.stack[Len(cd.stack)] = f
                     /\ cd'.stack[Len(cd'.stack)].old = f.old.content[f.j + 1]
                     /\ cd'.stack[Len(cd'.stack)].cur = c
                     /\ cd'.stack[Len(cd'.stack)].offset = o + 1
                ELSE /\ cd'.out = cd.out \o nodesBetween(c.content, o + 1)
                     /\ Len(cd'.stack) = Len(cd.stack)
                     /\ cd'.stack[Len(cd'.stack)].j = f.j
     /\ (Len(cd'.stack) < Len(cd.stack) /\ cd'.stack # <<>>) =>
          cd'.stack[Len(cd'.stack)].j = cd.stack[Len(cd'.stack)].j]_vars

\* C18 witness: a call has returned that met, with an old child at j, a
\* new child of another markup and reported its two descendants.
C18_Witness ==
  /\ cd.pc = "done"
  /\ Len(cd.old.content) > 0
  /\ \E k \in 1..(Len(cd.out) - 2) :
       /\ cd.out[k].node.attrs = "x"
       /\ cd.out[k + 1].node.type = "text"
       /\ cd.out[k + 2].node.type = "hardBreak"

\* C19 (offset tracking): every (node, offset) passed to the callback is a
\* node of the new document with its absolute start position, in document
\* order; the running offset of every call is the start of its node's
\* content plus the sizes of the children already passed, matched or not.
C19_OffsetTracking ==
  /\ LET all == descendants(cd.cur)
     IN \A k \in 1..Len(cd.out) : \E m \in 1..Len(all) : all[m] = cd.out[k]
  /\ \A k \in 1..(Len(cd.out) - 1) : cd.out[k].offset < cd.out[k + 1].offset
  /\ \A k \in 1..Len(cd.stack) :
       /\ cd.stack[k].offset
            = cd.stack[k].start
                + fragmentSize(SubSeq(cd.stack[k].cur.content, 1, cd.stack[k].i))
       /\ cd.stack[k].start = IF k = 1 THEN 0 ELSE cd.stack[k - 1].offset + 1

\* C19 witness: a call has returned that reported a new text node found by
\* recursion in the second child and a hard break by the visit of all
\* descendants.
C19_Witness ==
  /\ cd.pc = "done"
  /\ \E k \in 1..Len(cd.out) :
       /\ cd.out[k].node.text = <<"a", "a">>
       /\ cd.out[k].offset > 1
  /\ \E k \in 2..Len(cd.out) :
       /\ cd.out[k].node.type = "hardBreak"
       /\ cd.out[k - 1].node.type = "text"

\* C20 (unconditional clearing): after the callback for a reported node,
\* the annotations inside the node's range are exactly the node's own scan
\* result, so whatever the mapping had left there is gone, also when the
\* scan found nothing; and an edit that deletes or replaces the character
\* of the only annotation, leaving nothing to annotate, returns the empty
\* set.
C20_UnconditionalClearing ==
  /\ [][(pc = "apply" /\ calls # <<>>) =>
          LET n == Head(calls).node
              o == Head(calls).offset
          IN within(newSet', o, o + nodeSize(n))
               = DOMAIN create(tr.doc, typographicDecorationsForNode(n, o))]_vars
  /\ []((/\ Finished
         /\ tr.kind \in {"delete", "replace"}
         /\ Cardinality(DOMAIN set) = 1
         /\ \A d \in DOMAIN set : d.kind = "inline" /\ d.from = tr.mapping[1][1][1]
         /\ typographicDecorations(tr.doc) = EmptyBag)
          => newSet = EmptyBag)

\* C20 witness: a character with the only annotation was replaced by an
\* ordinary one; the mapping kept the annotation, the scans found nothing,
\* and the set apply returns is empty.
C20_Witness ==
  /\ Finished
  /\ tr.kind = "replace"
  /\ Cardinality(DOMAIN set) = 1
  /\ mapSet(set, tr.mapping, tr.doc) # EmptyBag
  /\ typographicDecorations(tr.doc) = EmptyBag
  /\ reported # <<>>
  /\ newSet = EmptyBag

\* C21 (initial state): the set init creates has exactly the annotations
\* the scanner gives for the descendants of the attached document, each at
\* the descendant's absolute position; it is empty for the empty document
\* and for a document without configured character and without hardBreak.
C21_InitialState ==
  [][pc = "init" =>
       LET all == descendants(doc)
           scanned == UNION {{typographicDecorationsForNode(all[k].node, all[k].offset)[x] :
                                x \in 1..Len(typographicDecorationsForNode(all[k].node, all[k].offset))} :
                             k \in 1..Len(all)}
       IN /\ triples(set') = scanned
          /\ \A d \in DOMAIN set' : fits(d, doc)
          /\ doc.content = <<>> => set' = EmptyBag
          /\ (\A k \in 1..Len(all) :
                /\ all[k].node.type # "hardBreak"
                /\ \A c \in 1..Len(all[k].node.text) : all[k].node.text[c] \notin DOMAIN classes)
               => set' = EmptyBag]_vars

\* C21 witness: init has run on a document of several paragraphs with a
\* configured character and a hardBreak below the top level, and no
\* transaction has been applied since.
C21_Witness ==
  /\ pc = "idle"
  /\ tr.kind = "init"
  /\ Len(doc.content) = MaxBlocks
  /\ \E d \in DOMAIN set : d.kind = "inline" /\ d.from > 2
  /\ \E d \in DOMAIN set : d.kind = "node"

\* The number of calls f(node, offset) a finished run has made for the
\* node at index k of the document-order list all.
callsFor(all, k) == Cardinality({x \in 1..Len(cd.out) : cd.out[x] = all[k]})

\* The node is the very same object as some node of the old document.
inOld(n) ==
  LET oldAll == descendants(cd.old)
  IN \E m \in 1..Len(oldAll) : sameNode(oldAll[m].node, n)

\* C22 (change detection is complete): when changedDescendants(old, cur)
\* has returned, every node of cur that is not the very same node as a node
\* of old has received the callback exactly once; a node of cur that has
\* received none is, or lies inside, a node of cur that is the very same as
\* a node of old and has received none either; and when cur is old without
\* one of its children, no callback was made.
C22_Complete ==
  cd.pc = "done" =>
    LET all == descendants(cd.cur)
    IN /\ \A k \in 1..Len(all) : ~inOld(all[k].node) => callsFor(all, k) = 1
       /\ \A k \in 1..Len(all) :
            callsFor(all, k) = 0 =>
              \E m \in 1..Len(all) :
                /\ all[m].offset <= all[k].offset
                /\ all[k].offset + nodeSize(all[k].node)
                     <= all[m].offset + nodeSize(all[m].node)
                /\ inOld(all[m].node)
                /\ callsFor(all, m) = 0
       /\ (\E k \in 1..Len(cd.old.content) :
             cd.cur.content = RemoveAt(cd.old.content, k)) => cd.out = <<>>

\* C22 witness: a run has returned in which a new node below the top level
\* was reported, an old child was matched and skipped, and an old node was
\* skipped inside a reported parent.
C22_Witness ==
  /\ cd.pc = "done"
  /\ LET all == descendants(cd.cur)
     IN /\ \E k \in 1..Len(all) :
             /\ isLeaf(all[k].node)
             /\ ~inOld(all[k].node)
             /\ callsFor(all, k) = 1
        /\ \E k \in 1..Len(all) :
             /\ ~isLeaf(all[k].node)
             /\ inOld(all[k].node)
             /\ callsFor(all, k) = 0
        /\ \E k, m \in 1..Len(all) :
             /\ isLeaf(all[k].node)
             /\ inOld(all[k].node)
             /\ callsFor(all, k) = 0
             /\ ~isLeaf(all[m].node)
             /\ all[m].offset < all[k].offset
             /\ all[k].offset < all[m].offset + nodeSize(all[m].node)
             /\ callsFor(all, m) = 1

\* C23 (unsetNodeClass without a type terminates): the clear-all branch is
\* never entered from itself, the call never ends with an exception, and
\* when it has returned the per-type clear was invoked once for each
\* configured node type among the ancestors of the selection start and
\* once for each configured mark type at the selection start.
C23_UnsetAllTerminates ==
  /\ Len(cmd.stack) <= 1
  /\ cmd.result # "RangeError"
  /\ (cmd.name = "unsetNodeClass" /\ cmd.type = undefined /\ cmd.stack = <<>>) =>
       LET types == {n.type : n \in {nc.path[k] : k \in 1..Len(nc.path)}}
                      \cup {m.type : m \in nc.marks}
           configured == types \cap DOMAIN cssClasses
       IN /\ {cmd.cleared[k] : k \in 1..Len(cmd.cleared)} = configured
          /\ Len(cmd.cleared) = Cardinality(configured)

\* C24 (setNodeClass on a node type): for a configured node type the
\* command sets the class of the deepest ancestor of the selection start
\* that has this type to className, whatever class it had, leaves every
\* other node, the marks and the selection as they were and returns true;
\* without such an ancestor it returns false and changes nothing.
C24_SetNodeClass ==
  [][(Idle /\ cmd'.name = "setNodeClass"
           /\ cmd'.type \in schemaNodes \cap DOMAIN cssClasses) =>
       LET depths == {k \in 1..Len(nc.path) : nc.path[k].type = cmd'.type}
       IN /\ nc'.marks = nc.marks
          /\ nc'.empty = nc.empty
          /\ Len(nc'.path) = Len(nc.path)
          /\ IF depths = {}
             THEN cmd'.result = "false" /\ nc'.path = nc.path
             ELSE LET deepest == CHOOSE k \in depths : \A h \in depths : h <= k
                  IN /\ cmd'.result = "true"
                     /\ nc'.path[deepest] = [type |-> cmd'.type, class |-> cmd'.className]
                     /\ \A k \in (1..Len(nc.path)) \ {deepest} :
                          nc'.path[k] = nc.path[k]]_vars

\* C24 witness: setNodeClass has returned true on a selection inside two
\* lists of the type, the inner one carrying the new class, the outer one
\* still another.
C24_Witness ==
  /\ cmd.name = "setNodeClass"
  /\ cmd.type = "bulletList"
  /\ cmd.result = "true"
  /\ nc.last = "setNodeClass"
  /\ \E k, h \in 1..Len(nc.path) :
       /\ k < h
       /\ nc.path[k].type = "bulletList"
       /\ nc.path[h].type = "bulletList"
       /\ nc.path[h].class = cmd.className
       /\ nc.path[k].class \notin {cmd.className, null}

C26_TypeParsing ==
  [][(ol.pc \in {"load", "rendered"} /\ ol'.pc \in {"parsed", "reparsed"}) =>
       LET configured == {ol.listTypes[k].type : k \in 1..Len(ol.listTypes)}
           t == ol.element.type
           d == ol.element.dataType
           css == CASE t = "1" -> "decimal"
                    [] t = "a" -> "lower-alpha"
                    [] t = "A" -> "upper-alpha"
                    [] t = "i" -> "lower-roman"
                    [] t = "I" -> "upper-roman"
                    [] OTHER -> "none"
           parsed == ol'.attrs.type
       IN /\ parsed \in configured
          /\ d \in configured => parsed = d
          /\ (d \notin configured /\ css \in configured) => parsed = css
          /\ (d \notin configured /\ css \notin configured) => parsed = ol.listTypes[1].type
          /\ ol.pc = "rendered" => (ol.attrs.type \in configured /\ parsed = ol.attrs.type)]_vars

\* C26 witness: a list whose type came from the HTML type attribute, the
\* data-type attribute naming no configured type, was written out and
\* parsed again.
C26_Witness ==
  /\ ol.pc = "reparsed"
  /\ ol.attrs.type = "upper-roman"
  /\ ol.element = [type |-> "I", dataType |-> "upper-roman"]
  /\ ol.listTypes[1].type = "disc"

\* A start value typed into the dialog that is not a number: no digit at
\* its beginning, after a sign if there is one.
notANumber(s) ==
  LET body == IF s # <<>> /\ Head(s) = "-" THEN Tail(s) ELSE s
  IN body = <<>> \/ ~isDigit(Head(body))

\* A start value that is the number 0: the digits it begins with are all 0.
isZero(s) ==
  LET body == IF s # <<>> /\ Head(s) = "-" THEN Tail(s) ELSE s
  IN /\ ~notANumber(s)
     /\ \A k \in 1..Len(body) : (\A h \in 1..k : isDigit(body[h])) => body[k] = "0"

\* C27 (updateListAttributes): the attributes of the ordered list change
\* only in the step after the dialog has resolved with values, and one
\* transaction is dispatched then and no second one; with
\* enableListAttributes false the command returns false and no dialog is
\* ever opened; after a dialog resolved without values nothing changes; a
\* start that is not a number or is 0 is applied as 1.
C27_UpdateAfterDialog ==
  /\ [][ol'.attrs # ol.attrs =>
          /\ ol.enableListAttributes
          /\ ol.pc = "resolved"
          /\ ol.values.given
          /\ ol.updates = 0
          /\ ol'.updates = 1]_vars
  /\ [](ol.updates <= 1)
  /\ [](~ol.enableListAttributes =>
          /\ ol.pc = "idle"
          /\ ol.result \in {"none", "false"}
          /\ ~ol.dialog.given
          /\ ol.updates = 0)
  /\ [][(ol.pc = "resolved" /\ ~ol.values.given) =>
          (ol'.attrs = ol.attrs /\ ol'.updates = ol.updates)]_vars
  /\ [][(ol.pc = "resolved" /\ ol.values.given /\ hasList(ol.path)) =>
          /\ ol'.updates = 1
          /\ (notANumber(ol.values.start) \/ isZero(ol.values.start)) => ol'.attrs.start = 1
          /\ \A k \in 1..Len(ol.listTypes) :
               (/\ ol.listTypes[k].label = ol.values.listType
                /\ \A h \in 1..(k - 1) : ol.listTypes[h].label # ol.values.listType)
                 => ol'.attrs.type = ol.listTypes[k].type]_vars

\* C27 witness: the dialog of a list that started at 3 was confirmed with
\* the start 0 and another list type, and the one transaction has set the
\* start to 1 and the type.
C27_Witness ==
  /\ ol.pc = "idle"
  /\ ol.updates = 1
  /\ ol.values.given
  /\ ol.dialog.start = <<"3">>
  /\ ol.values.start = <<"0">>
  /\ ol.values.listType # ol.dialog.listType
  /\ ol.attrs.start = 1
  /\ ol.attrs.type = "disc"
  /\ hasList(ol.path)

====
